---- MODULE Spec2Model ----
(***************************************************************************)
(* Safe cart-pole task (custom_envs/safeCartpole.py): construction of the  *)
(* task with its cached Hamilton-Jacobi value function, the rejection      *)
(* sampling of Balance.initialize_episode, and the per-step safety         *)
(* annotation of Balance.get_observation.                                  *)
(*                                                                         *)
(* Quantities live on an integer lattice:                                  *)
(*   angles      in steps of pi/8   (pi = 8)                               *)
(*   positions   in steps of 0.1 m  (unsafe_x_max = 1.5 m = 15)            *)
(*   velocities  in steps of 1 /s   (unsafe_vel_max = 100)                 *)
(* An absent value (an unbound Python local, a missing file, no return     *)
(* value yet) is the empty sequence << >>, a present one is << v >>.       *)
(***************************************************************************)
EXTENDS Integers, Sequences, FiniteSets, TLC

VARIABLES
    hjr_file,           \* contents of safeCartpole_hjr_values.npy: << >> or << array >>
    task,               \* the Balance instance: << >> or << record of its attributes >>
    qpos,               \* physics.named.data.qpos: [slider, hinge_1]
    qvel,               \* physics.named.data.qvel: << qvel[0], qvel[1] >>
    geom_rgba,          \* physics.named.model.geom_rgba: [pole_1, cart]
    pc,                 \* "idle" | "loop" (inside initialize_episode) | "running"
    counter,            \* local counter of initialize_episode
    found_start,        \* local found_start of initialize_episode
    start_state,        \* local start_state: << >> or << state >>
    start_state_value,  \* local start_state_value: << >> or << value >>
    drawn,              \* number of candidates drawn and evaluated in this call
    reported,           \* 'Max counter exceeded' was printed in this call
    obs,                \* value returned by the latest get_observation: << >> or << obs >>
    classified          \* latest call of the analytic classifier: << >> or << [state, unsafe] >>

vars == << hjr_file, task, qpos, qvel, geom_rgba, pc, counter, found_start,
           start_state, start_state_value, drawn, reported, obs, classified >>

episode_locals == << counter, found_start, start_state, start_state_value, drawn, reported >>

----------------------------------------------------------------------------
(* Bounds of the model *)

\* raw hinge angles range over -MaxRawAngle .. MaxRawAngle (more than one full turn)
MaxRawAngle == 17

----------------------------------------------------------------------------
(* Program constants *)

pi == 8

max_counter == 1000

unsafe_x_min == 0 - 15
unsafe_x_max == 15
unsafe_vel_max == 100
unsafe_theta_min == 0 - 1
unsafe_theta_max == 1
unsafe_theta_in_range == FALSE

ForcedRecompute == TRUE

re_compute_hjr == FALSE

grid_resolution == 51
time_resolution == 101

\* the parameters written in setup_hj_reachability
SourceParams == [grid_resolution |-> grid_resolution, time_resolution |-> time_resolution, umax |-> 10]

\* parameter sets of successive constructions: those of the source, the
\* commented-out coarse grid, and the source grid with another control bound
ParamSets == { SourceParams,
               [grid_resolution |-> 10, time_resolution |-> 51, umax |-> 10],
               [grid_resolution |-> grid_resolution, time_resolution |-> time_resolution, umax |-> 20] }

RED == << 10, 0, 0, 10 >>
GREY == << 5, 5, 5, 10 >>
XML_RGBA == << 7, 7, 7, 10 >>

----------------------------------------------------------------------------
(* Inputs: samples of the random draws, value functions, physics states *)

\* samples of 0.01 * random.randn(), in lattice steps
Randn == { 0, 1 }

\* samples of random.uniform(low, high): the half-open interval [low, high);
\* x is drawn from [-0.1, 0.1), theta from [-0.034, 0.034), which is less
\* than one angular step around 0
Uniform(low, high) == low .. (high - 1)

\* the terminal value functions a solved or cached array may hold
TerminalFields == { "none", "all", "centered", "upright" }

\* the arrays hj.solve can return for parameters P: one snapshot per time,
\* each shaped like the lattice of P
Solve(P) == { [ computed_for |-> P, lattice |-> P.grid_resolution,
                snapshots |-> P.time_resolution, terminal |-> f ] : f \in TerminalFields }

Arrays == UNION { Solve(P) : P \in ParamSets }

\* cart positions and velocities the simulator is sampled at
SliderSamples == { unsafe_x_min - 1, 0 - 1, 0, 1, unsafe_x_max }
VelSamples == { 0 - unsafe_vel_max - 1, 0, 1, unsafe_vel_max }
HingeSamples == (0 - MaxRawAngle) .. MaxRawAngle

Abs(n) == IF n < 0 THEN 0 - n ELSE n

\* the count of draws is kept up to this value
DrawnCap == max_counter + 2

----------------------------------------------------------------------------
(* Pure functions of the task *)

\* Python's float remainder for a positive divisor: the result has the
\* sign of the divisor, 0 <= a % b < b
PyMod(a, b) == a % b

WrapAngleClosedAtPi(q) == pi - PyMod(pi - q, 2 * pi)

\* theta = (qpos[1] + np.pi) % (2*np.pi) - np.pi
WrapAngle(q) == PyMod(q + pi, 2 * pi) - pi

\* Grid.interpolate on the periodic dimension wraps the coordinate into the domain
GridWrap(theta) == ((theta + pi) % (2 * pi)) - pi

\* Grid.interpolate(values, state) for the terminal snapshots of TerminalFields
interpolate(terminal, state) ==
    CASE terminal = "none"     -> 0 - 1
      [] terminal = "all"      -> 1
      [] terminal = "centered" -> 0 - Abs(state[1])
      [] terminal = "upright"  -> 2 - Abs(GridWrap(state[2]))

\* self.hjr_state_to_value = lambda state: interpolate(hjr_all_values[-1], state)
hjr_state_to_value(t, state) == interpolate(t.hjr_all_values.terminal, state)

\* CartPoleDeepreach.is_unsafe: the analytic classifier of the unsafe region
is_unsafe_fast(state) ==
    \/ state[1] < unsafe_x_min
    \/ state[1] > unsafe_x_max
    \/ Abs(state[3]) > unsafe_vel_max
    \/ Abs(state[4]) > unsafe_vel_max
    \/ /\ unsafe_theta_min # unsafe_theta_max
       /\ LET in_range == unsafe_theta_min <= state[2] /\ state[2] <= unsafe_theta_max
          IN  in_range = unsafe_theta_in_range

\* Balance.is_unsafe: the state handed to the classifier
ClassifierState == << qpos.slider, WrapAngle(qpos.hinge_1), qvel[1], qvel[2] >>

\* Physics.bounded_position: cart position and the pole direction (cos, sin),
\* which is the hinge angle up to whole turns
bounded_position == << qpos.slider, qpos.hinge_1 % (2 * pi) >>

\* physics.velocity()
velocity == qvel

AcceptsAboveMinusOne(value) == value >= 0 - 1

\* if start_state_value >= 0
Accepts(value) == value >= 0

BudgetExceededAtMax(c) == c >= max_counter

\* if counter > max_counter
BudgetExceeded(c) == c > max_counter

IncrementForgotten(c) == c

\* counter += 1
Increment(c) == c + 1

FallbackUpright == << 0, 0, 0, 0 >>

\* start_state = np.array([0.0, np.pi, 0.0, 0.0])
FallbackState == << 0, pi, 0, 0 >>

ReportSilent(exceeded) == FALSE

\* print("Max counter exceeded: forcing to ", start_state)
Report(exceeded) == exceeded

\* the candidates of one draw: x, theta by mode, then xdot, thetadot
\* (one pole: the nv - 1 = 1 hinge angle of the balance draw is one number)
Candidates(swing_up) ==
    IF swing_up
    THEN { << x, pi + j, xd, td >> : x \in Randn, j \in Randn, xd \in Randn, td \in Randn }
    ELSE { << x, th, xd, td >> : x \in Uniform(0 - 1, 1), th \in Uniform(0, 1),
                                 xd \in Randn, td \in Randn }

----------------------------------------------------------------------------
(* Construction: Balance.__init__ and setup_hj_reachability *)

Construct(swing_up, sparse, P) ==
    /\ pc = "idle"
    /\ \E all_values \in (IF re_compute_hjr \/ hjr_file = << >> THEN Solve(P) ELSE { hjr_file[1] }) :
          /\ hjr_file' = IF re_compute_hjr \/ hjr_file = << >> THEN << all_values >> ELSE hjr_file
          /\ task' = << [ swing_up |-> swing_up, sparse |-> sparse, params |-> P,
                          hjr_grid |-> P.grid_resolution, hjr_times |-> P.time_resolution,
                          hjr_all_values |-> all_values ] >>
    /\ UNCHANGED << qpos, qvel, geom_rgba, pc, episode_locals, obs, classified >>

----------------------------------------------------------------------------
(* Episode start: Balance.initialize_episode *)

\* entry of initialize_episode; the environment calls it on freshly reset
\* physics data (the geom colours belong to the model and are kept)
Reset ==
    /\ pc \in { "idle", "running" }
    /\ task # << >>
    /\ pc' = "loop"
    /\ counter' = 0
    /\ found_start' = FALSE
    /\ start_state' = << >>
    /\ start_state_value' = << >>
    /\ drawn' = 0
    /\ reported' = FALSE
    /\ qpos' = [ slider |-> 0, hinge_1 |-> 0 ]
    /\ qvel' = << 0, 0 >>
    /\ obs' = << >>
    /\ classified' = << >>
    /\ UNCHANGED << hjr_file, task, geom_rgba >>

\* one iteration of  while not found_start
SampleCandidate ==
    /\ pc = "loop"
    /\ ~found_start
    /\ \E candidate \in Candidates(task[1].swing_up) :
          LET value    == hjr_state_to_value(task[1], candidate)
              exceeded == BudgetExceeded(Increment(counter))
          IN  /\ drawn' = IF drawn < DrawnCap THEN drawn + 1 ELSE drawn
              /\ start_state_value' = << value >>
              /\ IF Accepts(value)
                 THEN /\ found_start' = TRUE
                      /\ start_state' = << candidate >>
                      /\ UNCHANGED << counter, reported >>
                 ELSE /\ counter' = Increment(counter)
                      /\ start_state' = IF exceeded THEN << FallbackState >> ELSE << candidate >>
                      /\ reported' = (reported \/ Report(exceeded))
                      /\ found_start' = exceeded
    /\ UNCHANGED << hjr_file, task, qpos, qvel, geom_rgba, pc, obs, classified >>

\* after the loop: write start_state into the physics, then base
\* initialize_episode; the call returns and its locals are gone
WriteStartState ==
    /\ pc = "loop"
    /\ found_start
    /\ qpos' = [ slider |-> start_state[1][1], hinge_1 |-> start_state[1][2] ]
    /\ qvel' = << start_state[1][3], start_state[1][4] >>
    /\ pc' = "running"
    /\ counter' = 0
    /\ found_start' = FALSE
    /\ start_state' = << >>
    /\ start_state_value' = << >>
    /\ drawn' = 0
    /\ UNCHANGED << hjr_file, task, geom_rgba, reported, obs, classified >>

----------------------------------------------------------------------------
(* Running episode: the simulator's step and Balance.get_observation *)

\* the simulator advances the physics: one coordinate moves to another sample
Step ==
    /\ pc = "running"
    /\ \/ \E x \in SliderSamples : qpos' = [ qpos EXCEPT !.slider = x ] /\ qvel' = qvel
       \/ \E q \in HingeSamples : qpos' = [ qpos EXCEPT !.hinge_1 = q ] /\ qvel' = qvel
       \/ \E v \in VelSamples : qvel' = [ qvel EXCEPT ![1] = v ] /\ qpos' = qpos
       \/ \E v \in VelSamples : qvel' = [ qvel EXCEPT ![2] = v ] /\ qpos' = qpos
    /\ obs' = << >>
    /\ classified' = << >>
    /\ UNCHANGED << hjr_file, task, geom_rgba, pc, episode_locals >>

GetObservationRedOnly ==
    /\ pc = "running"
    /\ LET unsafe == is_unsafe_fast(ClassifierState)
       IN  /\ obs' = << [ position |-> bounded_position, velocity |-> velocity ] >>
           /\ classified' = << [ state |-> ClassifierState, unsafe |-> unsafe ] >>
           /\ geom_rgba' = IF unsafe THEN [ pole_1 |-> RED, cart |-> RED ] ELSE geom_rgba
    /\ UNCHANGED << hjr_file, task, qpos, qvel, pc, episode_locals >>

GetObservationClampsAngle ==
    /\ pc = "running"
    /\ LET unsafe == is_unsafe_fast(ClassifierState)
       IN  /\ obs' = << [ position |-> bounded_position, velocity |-> velocity ] >>
           /\ classified' = << [ state |-> ClassifierState, unsafe |-> unsafe ] >>
           /\ geom_rgba' = IF unsafe THEN [ pole_1 |-> RED, cart |-> RED ]
                                     ELSE [ pole_1 |-> GREY, cart |-> GREY ]
           /\ qpos' = [ qpos EXCEPT !.hinge_1 = ClassifierState[2] ]
    /\ UNCHANGED << hjr_file, task, qvel, pc, episode_locals >>

GetObservation ==
    /\ pc = "running"
    /\ LET unsafe == is_unsafe_fast(ClassifierState)
       IN  /\ obs' = << [ position |-> bounded_position, velocity |-> velocity ] >>
           /\ classified' = << [ state |-> ClassifierState, unsafe |-> unsafe ] >>
           /\ geom_rgba' = IF unsafe THEN [ pole_1 |-> RED, cart |-> RED ]
                                     ELSE [ pole_1 |-> GREY, cart |-> GREY ]
    /\ UNCHANGED << hjr_file, task, qpos, qvel, pc, episode_locals >>

----------------------------------------------------------------------------
(* Specifications *)

InitCommon ==
    /\ qpos = [ slider |-> 0, hinge_1 |-> 0 ]
    /\ qvel = << 0, 0 >>
    /\ geom_rgba = [ pole_1 |-> XML_RGBA, cart |-> XML_RGBA ]
    /\ pc = "idle"
    /\ counter = 0
    /\ found_start = FALSE
    /\ start_state = << >>
    /\ start_state_value = << >>
    /\ drawn = 0
    /\ reported = FALSE
    /\ obs = << >>
    /\ classified = << >>

\* a task constructed with the source's parameters over any cached array of
\* the same shape
ConstructedTasks(fields) ==
    { << [ swing_up |-> s, sparse |-> FALSE, params |-> SourceParams,
           hjr_grid |-> SourceParams.grid_resolution, hjr_times |-> SourceParams.time_resolution,
           hjr_all_values |-> a ] >> :
      s \in BOOLEAN, a \in { b \in Solve(SourceParams) : b.terminal \in fields } }

\* episode starts of a constructed task
Init ==
    /\ InitCommon
    /\ task \in ConstructedTasks(TerminalFields)
    /\ hjr_file = << task[1].hjr_all_values >>

Next == Reset \/ SampleCandidate \/ WriteStartState

Spec == Init /\ [][Next]_vars

\* a call that has started runs on: the loop and the write are sequential code
FairSpec == Spec /\ WF_vars(SampleCandidate) /\ WF_vars(WriteStartState)

\* constructions over a cache file that is absent or was left by an earlier run
InitCache ==
    /\ InitCommon
    /\ task = << >>
    /\ hjr_file \in { << >> } \cup { << a >> : a \in Arrays }

NextCache == \E swing_up \in BOOLEAN, sparse \in BOOLEAN, P \in ParamSets : Construct(swing_up, sparse, P)

SpecCache == InitCache /\ [][NextCache]_vars

\* whole episodes: resets, simulator steps and observations
InitObs ==
    /\ InitCommon
    /\ task \in ConstructedTasks({ "all" })
    /\ hjr_file = << task[1].hjr_all_values >>

NextObs == Reset \/ SampleCandidate \/ WriteStartState \/ Step \/ GetObservation

SpecObs == InitObs /\ [][NextObs]_vars

----------------------------------------------------------------------------
(* Properties *)

\* the state held by the physics
PhysState == << qpos.slider, qpos.hinge_1, qvel[1], qvel[2] >>

\* C1: the state initialize_episode writes to the physics is the candidate it
\* last evaluated, with a value >= 0 of that candidate, unless the retry budget
\* was exhausted, and then it is the fallback state; a candidate with a
\* negative value is never written.
C1_WrittenStateCertified ==
    [][ (pc = "loop" /\ pc' = "running") =>
          /\ PhysState' = start_state[1]
          /\ \/ /\ counter <= max_counter
                /\ start_state_value[1] >= 0
                /\ start_state_value[1] = hjr_state_to_value(task[1], start_state[1])
             \/ /\ counter > max_counter
                /\ start_state[1] = << 0, pi, 0, 0 >> ]_vars

\* a candidate accepted with value exactly 0 has been written
C1_Witness ==
    /\ pc = "running"
    /\ ~reported
    /\ task[1].hjr_all_values.terminal = "centered"
    /\ hjr_state_to_value(task[1], PhysState) = 0

\* C2 as stated: at most 1000 candidates are drawn and evaluated in one call.
C2_AtMostMaxCounterDraws == drawn <= max_counter

\* C2: at most max_counter + 1 = 1001 candidates are drawn and evaluated in one
\* call, and the fallback is taken exactly when the 1001st candidate is
\* rejected.
C2_AtMostMaxCounterPlusOneDraws ==
    /\ drawn <= max_counter + 1
    /\ counter <= drawn
    /\ (pc = "loop" /\ reported) => (drawn = max_counter + 1 /\ counter = max_counter + 1)

\* the fallback was taken after 1001 rejected candidates
C2_Witness == pc = "loop" /\ found_start /\ reported /\ drawn = max_counter + 1

\* C3: when the retry budget is exhausted the state written is exactly
\* (0, pi, 0, 0), whatever the mode, the draws and the value of that state.
C3_FallbackIsHangingDown ==
    [][ (pc = "loop" /\ pc' = "running" /\ counter > max_counter) =>
          PhysState' = << 0, pi, 0, 0 >> ]_vars

\* the fallback was written in balance mode although its own value is negative
C3_Witness ==
    /\ pc = "running"
    /\ reported
    /\ ~task[1].swing_up
    /\ PhysState = << 0, pi, 0, 0 >>
    /\ hjr_state_to_value(task[1], PhysState) < 0

\* C4: 'Max counter exceeded' has been printed when the state is written if and
\* only if the budget was exhausted and the fallback is written; a call that
\* accepts a candidate prints no report.
C4_ReportIffFallback ==
    [][ (pc = "loop" /\ pc' = "running") =>
          /\ reported' = reported
          /\ reported <=> counter > max_counter
          /\ reported <=> start_state_value[1] < 0
          /\ reported => PhysState' = << 0, pi, 0, 0 >> ]_vars

\* the fallback was written in swing-up mode after its report
C4_Witness == pc = "running" /\ reported /\ task[1].swing_up

C6_MismatchFailsConstruction ==
    task # << >> =>
        /\ task[1].hjr_all_values.lattice = task[1].hjr_grid
        /\ task[1].hjr_all_values.snapshots = task[1].hjr_times

\* C7 as stated: the array a task uses was computed under the parameters of
\* its construction.
C7_CacheKeyedByParams ==
    task # << >> => task[1].hjr_all_values.computed_for = task[1].params

\* C7: the file has one name for all parameters: a construction solves and
\* saves under its own parameters only when the file is absent, and otherwise
\* restores the file's array unchanged, whatever parameters it was computed
\* under.
C7_CacheRestoredWhateverParams ==
    [][ /\ hjr_file # << >> =>
             /\ hjr_file' = hjr_file
             /\ task' # << >> => task'[1].hjr_all_values = hjr_file[1]
        /\ (hjr_file = << >> /\ task' # task) =>
             /\ hjr_file' = << task'[1].hjr_all_values >>
             /\ task'[1].hjr_all_values.computed_for = task'[1].params ]_vars

\* a task uses an array computed under other parameters than its own
C7_Witness ==
    /\ task # << >>
    /\ task[1].hjr_all_values.computed_for # task[1].params

\* C8: get_observation leaves qpos, qvel and the episode untouched and returns
\* position and velocity entries that depend on the physics alone.
C8_ObservationIsAnnotation ==
    [][ obs' # << >> =>
          /\ qpos' = qpos
          /\ qvel' = qvel
          /\ pc' = pc
          /\ obs'[1].position = bounded_position
          /\ obs'[1].velocity = velocity ]_vars

\* an unsafe state with a raw angle beyond pi was observed and coloured red
C8_Witness ==
    /\ obs # << >>
    /\ classified[1].unsafe
    /\ geom_rgba.pole_1 = RED
    /\ qpos.hinge_1 > pi

\* C9 as stated: the angle passed to the classifier is congruent to the raw
\* angle modulo 2*pi and lies in (-pi, pi].
C9_WrappedOpenAtMinusPi ==
    classified # << >> =>
        LET theta == classified[1].state[2]
        IN  /\ (theta - qpos.hinge_1) % (2 * pi) = 0
            /\ 0 - pi < theta
            /\ theta <= pi

\* C9: the angle passed to the classifier is congruent to the raw angle modulo
\* 2*pi and lies in [-pi, pi); a raw angle of exactly pi is passed as -pi.
C9_WrappedClosedAtMinusPi ==
    classified # << >> =>
        LET theta == classified[1].state[2]
        IN  /\ (theta - qpos.hinge_1) % (2 * pi) = 0
            /\ 0 - pi <= theta
            /\ theta < pi
            /\ qpos.hinge_1 = pi => theta = 0 - pi

\* a raw angle of pi was passed to the classifier as -pi
C9_Witness ==
    /\ classified # << >>
    /\ qpos.hinge_1 = pi
    /\ classified[1].state[2] = 0 - pi

\* C10: after get_observation pole_1 and cart carry the same colour: red if
\* the classifier returned unsafe for the observed state, grey otherwise.
C10_ColourMatchesClassification ==
    obs # << >> =>
        /\ geom_rgba.pole_1 = geom_rgba.cart
        /\ geom_rgba.pole_1 = IF is_unsafe_fast(<< qpos.slider, classified[1].state[2], qvel[1], qvel[2] >>)
                              THEN RED ELSE GREY
        /\ classified[1].unsafe = is_unsafe_fast(classified[1].state)

\* a safe state was observed and coloured grey
C10_Witness ==
    /\ obs # << >>
    /\ ~classified[1].unsafe
    /\ geom_rgba = [ pole_1 |-> GREY, cart |-> GREY ]

====
